---- MODULE Spec2Model ----
(***************************************************************************)
(* Model of GitHubCopilotInteraction.fetch_repository and its helpers      *)
(* _download_directory_contents and _get_file_content                      *)
(* (src/github-copilot-interaction.py).                                    *)
(*                                                                         *)
(* The recursion of _download_directory_contents is an explicit stack of   *)
(* frames; every frame holds the locals of one call.  The remote side      *)
(* (GitHub) answers each request nondeterministically: a listing is a      *)
(* status plus a sequence of entries, a download is a status plus bytes,   *)
(* and either request may fail in transport (requests.get raises).  The    *)
(* local filesystem may refuse a mkdir or a write (the call raises).       *)
(***************************************************************************)
EXTENDS Integers, Sequences, FiniteSets, TLC

\* ---------------------------------------------------------------- bounds
MaxDepth == 2      \* deepest nesting of directories in the remote tree
MaxWidth == 3      \* most entries one listing returns
MaxEntries == 3    \* most entries the whole remote tree holds

\* ------------------------------------------------------------- constants
HTTP_OK == 200     \* the only status the code treats as success

Slash == "/"
Root == <<"Hello-World">>            \* Path(repo_name), as path components
NamePool == <<"b", "a", "d", "c", "e">>   \* names by position, unsorted

Last(s) == s[Len(s)]
Front(s) == SubSeq(s, 1, Len(s) - 1)

\* ---------------------------------------------------------------- base64
\* An encoded string is a sequence of characters; a character of the base64
\* alphabet is written as its index 0..63, Pad is "=" and Newline is "\n".
Pad == 64
Newline == 65

IsAlphabetOrPad(c) == c \in 0..64

RECURSIVE B64Strip(_)
B64Strip(s) ==
    IF s = <<>> THEN <<>>
    ELSE IF IsAlphabetOrPad(Head(s)) THEN <<Head(s)>> \o B64Strip(Tail(s))
    ELSE B64Strip(Tail(s))

B64Quad(q) ==
    LET c3 == IF q[3] = Pad THEN 0 ELSE q[3]
        c4 == IF q[4] = Pad THEN 0 ELSE q[4]
        n  == q[1] * 262144 + q[2] * 4096 + c3 * 64 + c4
        b1 == n \div 65536
        b2 == (n \div 256) % 256
        b3 == n % 256
    IN  IF q[3] = Pad THEN <<b1>>
        ELSE IF q[4] = Pad THEN <<b1, b2>>
        ELSE <<b1, b2, b3>>

RECURSIVE B64Quads(_)
B64Quads(s) ==
    IF Len(s) < 4 THEN <<>>
    ELSE B64Quad(SubSeq(s, 1, 4)) \o B64Quads(SubSeq(s, 5, Len(s)))

\* base64.b64decode(s): characters outside the alphabet are discarded, then
\* every group of four characters yields up to three bytes.
b64decode(s) == B64Quads(B64Strip(s))

\* The remote side's encoding of a blob: groups of three bytes become four
\* characters, the last group is padded, and a newline ends the string.
B64Group(g) ==
    LET b1 == g[1]
        b2 == IF Len(g) >= 2 THEN g[2] ELSE 0
        b3 == IF Len(g) >= 3 THEN g[3] ELSE 0
        n  == b1 * 65536 + b2 * 256 + b3
        c1 == n \div 262144
        c2 == (n \div 4096) % 64
        c3 == (n \div 64) % 64
        c4 == n % 64
    IN  IF Len(g) = 1 THEN <<c1, c2, Pad, Pad>>
        ELSE IF Len(g) = 2 THEN <<c1, c2, c3, Pad>>
        ELSE <<c1, c2, c3, c4>>

RECURSIVE B64Groups(_)
B64Groups(b) ==
    IF b = <<>> THEN <<>>
    ELSE IF Len(b) <= 3 THEN B64Group(b)
    ELSE B64Group(SubSeq(b, 1, 3)) \o B64Groups(SubSeq(b, 4, Len(b)))

RemoteEncode(b) == IF b = <<>> THEN <<>> ELSE B64Groups(b) \o <<Newline>>

\* ----------------------------------------------------------------- paths
\* A remote path is the string the code builds, kept as a sequence of
\* tokens: names and "/" separators.  '' is the empty sequence.
\* a variant that joins unconditionally: f"{path}/{item['name']}"
SubPath_AlwaysSlash(path, name) == path \o <<Slash, name>>

SubPath(path, name) ==
    IF path # <<>> THEN path \o <<Slash, name>> ELSE <<name>>

\* a variant that forgets the parent: Path(item['name'])
ItemPath_NoParent(target_path, name) == <<name>>

\* target_path / item['name']
ItemPath(target_path, name) == Append(target_path, name)

\* str(item_path): the components joined with "/"
RECURSIVE PathStr(_)
PathStr(p) ==
    IF p = <<>> THEN <<>>
    ELSE IF Len(p) = 1 THEN <<p[1]>>
    ELSE <<p[1], Slash>> \o PathStr(Tail(p))

\* the names a remote path is made of
Names(path) == SelectSeq(path, LAMBDA t : t # Slash)

\* ----------------------------------------------------------- remote side
\* The kinds of entry a listing may hold.  A file's blob is the content the
\* remote holds for it; the listing carries it inline (base64), carries an
\* empty inline content, or carries no content key at all.
Kinds == {"dir", "symlink", "file_inline", "file_empty", "file_plain"}

KindBlob(kind) ==
    CASE kind = "file_inline" -> <<77, 97>>
      [] kind = "file_empty"  -> <<104, 105, 33, 10>>
      [] kind = "file_plain"  -> <<35>>
      [] OTHER                -> <<>>

KindType(kind) ==
    IF kind = "dir" THEN "dir" ELSE IF kind = "symlink" THEN "symlink" ELSE "file"

\* One element of the JSON array of the listing endpoint.
Item(kind, path, name) ==
    LET base == [name |-> name, type |-> KindType(kind),
                 size |-> Len(KindBlob(kind)),
                 download_url |-> PathStr(Append(Names(path), name))]
    IN  IF kind = "file_inline"
          THEN [name |-> base.name, type |-> base.type, size |-> base.size,
                download_url |-> base.download_url,
                content |-> RemoteEncode(KindBlob(kind))]
        ELSE IF kind = "file_empty"
          THEN [name |-> base.name, type |-> base.type, size |-> base.size,
                download_url |-> base.download_url, content |-> <<>>]
        ELSE base

RECURSIVE EntriesServed(_)
EntriesServed(l) ==
    IF l = <<>> THEN 0
    ELSE (IF Head(l).op = "list" THEN Len(Head(l).contents) ELSE 0)
         + EntriesServed(Tail(l))

KindSeqs(depth, n) ==
    [1..n -> IF depth < MaxDepth THEN Kinds ELSE Kinds \ {"dir"}]

Min(a, b) == IF a < b THEN a ELSE b

\* The listings the remote may return for the directory at this depth, as
\* the kinds of their entries.
ListingKinds(depth, budget) ==
    UNION { KindSeqs(depth, n) : n \in 0..Min(MaxWidth, budget) }

\* response.json() of a listing: the entries are named by position
Listing(ks, path) == [i \in 1..Len(ks) |-> Item(ks[i], path, NamePool[i])]

\* the blobs the remote holds for the file entries of a listing
ListingBlobs(ks, path) ==
    [u \in { PathStr(Append(Names(path), NamePool[i])) :
               i \in { j \in 1..Len(ks) : KindType(ks[j]) = "file" } } |->
        KindBlob(ks[CHOOSE i \in 1..Len(ks) :
                        PathStr(Append(Names(path), NamePool[i])) = u])]

ErrorResponses ==
    { [raised |-> FALSE, status_code |-> 404, text |-> "Not Found"],
      [raised |-> FALSE, status_code |-> 403, text |-> "rate limit exceeded"] }

TransportFailure == [raised |-> TRUE, status_code |-> 0, text |-> ""]

\* kinds is the remote's own record of what it listed; the code sees the
\* status, the text and the decoded JSON only
ListResponses(path, depth, budget) ==
    { [raised |-> FALSE, status_code |-> HTTP_OK, text |-> "[...]",
       json |-> Listing(ks, path), kinds |-> ks] :
        ks \in ListingKinds(depth, budget) }
    \cup { [raised |-> r.raised, status_code |-> r.status_code, text |-> r.text,
            json |-> <<>>, kinds |-> <<>>] :
            r \in ErrorResponses \cup {TransportFailure} }

DownloadResponses(blob) ==
    { [raised |-> FALSE, status_code |-> HTTP_OK, content |-> blob],
      [raised |-> FALSE, status_code |-> 404, content |-> <<52, 48, 52>>],
      [raised |-> TRUE, status_code |-> 0, content |-> <<>>] }

\* ------------------------------------------------------------- the code
NoResult == [none |-> TRUE]
NoResponse == [status_code |-> 0, text |-> ""]

\* the part of a listing response the code looks at besides the JSON
Seen(response) == [status_code |-> response.status_code, text |-> response.text]

\* a variant that swallows the failure and returns an empty result
ErrorResult_Dropped(response) == [files |-> <<>>, directories |-> <<>>]

\* return {'error': response.text}
ErrorResult(response) == [error |-> response.text]

\* result = {'files': [], 'directories': []}
EmptyResult == [files |-> <<>>, directories |-> <<>>]

\* if 'content' in file_info and file_info['content']
HasInline(file_info) ==
    "content" \in DOMAIN file_info /\ file_info.content # <<>>

\* a variant that downloads every file, inline content or not
NeedsDownload_Always(file_info) == TRUE

\* _get_file_content issues a download request exactly when this holds
NeedsDownload(file_info) == ~HasInline(file_info)

\* the bytes _get_file_content returns; response is the answer to the
\* download request and is looked at only when the request was made
get_file_content(file_info, response) ==
    IF HasInline(file_info) THEN b64decode(file_info.content)
    ELSE IF response.status_code = HTTP_OK THEN response.content
    ELSE <<>>

\* a variant that inserts at the front: result['files'].insert(0, {...})
append_file_Prepend(result, item, item_path) ==
    [result EXCEPT !.files =
        <<[name |-> item.name, path |-> PathStr(item_path),
           size |-> item.size]>> \o @]

\* result['files'].append({...})
append_file(result, item, item_path) ==
    [result EXCEPT !.files =
        Append(@, [name |-> item.name, path |-> PathStr(item_path),
                   size |-> item.size])]

\* a variant that records the directory without what the recursion returned
append_directory_NoContents(result, item, item_path, sub_result) ==
    [result EXCEPT !.directories =
        Append(@, [name |-> item.name, path |-> PathStr(item_path),
                   contents |-> [files |-> <<>>, directories |-> <<>>]])]

\* result['directories'].append({...})
append_directory(result, item, item_path, sub_result) ==
    [result EXCEPT !.directories =
        Append(@, [name |-> item.name, path |-> PathStr(item_path),
                   contents |-> sub_result])]

\* a variant that catches the exception of a filesystem call and goes on
AfterFsCall_Swallow(ok) == "running"

\* what a failing filesystem call does to the control state: write_bytes
\* and mkdir raise, and nothing in the code catches the exception
AfterFsCall(ok) == IF ok THEN "running" ELSE "raised"

\* what a failing requests.get does: the exception is not caught
AfterRequest(response) == IF response.raised THEN "raised" ELSE "running"

\* ----------------------------------------------------------------- state
VARIABLES
    pc,           \* "start", "running", "done" (returned) or "raised"
    stack,        \* frames of _download_directory_contents, innermost last
    returned,     \* what fetch_repository returned, NoResult before that
    local_dirs,   \* local directories, as component sequences
    local_files,  \* local files: component sequence -> bytes
    blobs,        \* remote file contents: download_url -> bytes
    log           \* the requests and filesystem calls made, in order

vars == <<pc, stack, returned, local_dirs, local_files, blobs, log>>

Frame(path, target_path) ==
    [path |-> path, target_path |-> target_path, phase |-> "request",
     response |-> NoResponse, contents |-> <<>>, result |-> NoResult,
     idx |-> 1, file_content |-> <<>>]

Top == stack[Len(stack)]
SetTop(f) == [stack EXCEPT ![Len(stack)] = f]
CurItem == Top.contents[Top.idx]
InLoop == pc = "running" /\ stack # <<>> /\ Top.phase = "loop"
           /\ Top.idx <= Len(Top.contents)

Init ==
    /\ pc = "start"
    /\ stack = <<>>
    /\ returned = NoResult
    /\ local_dirs \in {{}, {Root}}
    /\ local_files = << >>
    /\ blobs = << >>
    /\ log = <<>>

\* fetch_repository: mkdir(parents=True, exist_ok=True), then the first call
fetch_repository ==
    /\ pc = "start"
    /\ \E ok \in BOOLEAN :
        /\ log' = Append(log, [op |-> "mkdir", path |-> Root, ok |-> ok,
                            existed |-> Root \in local_dirs])
        /\ pc' = AfterFsCall(ok)
        /\ IF pc' = "running"
             THEN /\ local_dirs' = local_dirs \cup {Root}
                  /\ stack' = <<Frame(<<>>, Root)>>
             ELSE UNCHANGED <<local_dirs, stack>>
    /\ UNCHANGED <<returned, local_files, blobs>>

\* _download_directory_contents, lines 64-73: the listing request
download_directory_contents ==
    /\ pc = "running" /\ stack # <<>> /\ Top.phase = "request"
    /\ \E response \in ListResponses(Top.path, Len(stack) - 1,
                                     MaxEntries - EntriesServed(log)) :
        /\ log' = Append(log, [op |-> "list", path |-> Top.path,
                               raised |-> response.raised,
                               status_code |-> response.status_code,
                               text |-> response.text,
                               contents |-> response.json])
        /\ blobs' = ListingBlobs(response.kinds, Top.path) @@ blobs
        /\ pc' = AfterRequest(response)
        /\ IF pc' = "raised" THEN UNCHANGED stack
           ELSE IF response.status_code # HTTP_OK
             THEN stack' = SetTop([Top EXCEPT !.response = Seen(response),
                                              !.result = ErrorResult(response),
                                              !.phase = "ret"])
           ELSE stack' = SetTop([Top EXCEPT !.response = Seen(response),
                                            !.contents = response.json,
                                            !.result = EmptyResult,
                                            !.phase = "loop"])
    /\ UNCHANGED <<returned, local_dirs, local_files>>

\* lines 78-80 and _get_file_content: obtain the bytes of a file entry
process_file ==
    /\ InLoop /\ CurItem.type = "file"
    /\ IF NeedsDownload(CurItem)
         THEN \E response \in DownloadResponses(blobs[CurItem.download_url]) :
                /\ log' = Append(log, [op |-> "download",
                                       url |-> CurItem.download_url,
                                       raised |-> response.raised,
                                       status_code |-> response.status_code])
                /\ pc' = AfterRequest(response)
                /\ IF pc' = "raised" THEN UNCHANGED stack
                   ELSE stack' = SetTop([Top EXCEPT
                            !.file_content = get_file_content(CurItem, response),
                            !.phase = "write"])
         ELSE /\ stack' = SetTop([Top EXCEPT
                            !.file_content = get_file_content(CurItem, NoResponse),
                            !.phase = "write"])
              /\ UNCHANGED <<log, pc>>
    /\ UNCHANGED <<returned, local_dirs, local_files, blobs>>

\* lines 81-87: item_path.write_bytes(file_content), then the files record
write_bytes ==
    /\ pc = "running" /\ stack # <<>> /\ Top.phase = "write"
    /\ LET item_path == ItemPath(Top.target_path, CurItem.name) IN
       \E ok \in BOOLEAN :
        /\ log' = Append(log, [op |-> "write", path |-> item_path,
                               data |-> Top.file_content, ok |-> ok])
        /\ pc' = AfterFsCall(ok)
        /\ IF pc' = "running"
             THEN /\ IF ok THEN local_files' = (item_path :> Top.file_content)
                                               @@ local_files
                           ELSE UNCHANGED local_files
                  /\ stack' = SetTop([Top EXCEPT
                        !.result = append_file(@, CurItem, item_path),
                        !.idx = @ + 1, !.phase = "loop"])
             ELSE UNCHANGED <<local_files, stack>>
    /\ UNCHANGED <<returned, local_dirs, blobs>>

\* lines 89-94: item_path.mkdir(exist_ok=True), then the recursive call
process_dir ==
    /\ InLoop /\ CurItem.type = "dir"
    /\ LET item_path == ItemPath(Top.target_path, CurItem.name) IN
       \E ok \in BOOLEAN :
        /\ log' = Append(log, [op |-> "mkdir", path |-> item_path, ok |-> ok,
                               existed |-> item_path \in local_dirs])
        /\ pc' = AfterFsCall(ok)
        /\ IF pc' = "running"
             THEN /\ IF ok THEN local_dirs' = local_dirs \cup {item_path}
                           ELSE UNCHANGED local_dirs
                  /\ stack' = Append(stack,
                        Frame(SubPath(Top.path, CurItem.name), item_path))
             ELSE UNCHANGED <<local_dirs, stack>>
    /\ UNCHANGED <<returned, local_files, blobs>>

\* line 75: an entry that is neither a file nor a dir is passed over
skip_item ==
    /\ InLoop /\ CurItem.type \notin {"file", "dir"}
    /\ stack' = SetTop([Top EXCEPT !.idx = @ + 1])
    /\ UNCHANGED <<pc, returned, local_dirs, local_files, blobs, log>>

\* lines 70 and 101 (return) and 95-99 (the caller's directories record)
return_result ==
    /\ pc = "running" /\ stack # <<>>
    /\ \/ Top.phase = "ret"
       \/ Top.phase = "loop" /\ Top.idx > Len(Top.contents)
    /\ IF Len(stack) = 1
         THEN /\ pc' = "done"
              /\ returned' = Top.result
              /\ stack' = <<>>
         ELSE LET caller == stack[Len(stack) - 1]
                  item == caller.contents[caller.idx]
                  item_path == ItemPath(caller.target_path, item.name)
              IN  /\ stack' = [Front(stack) EXCEPT ![Len(stack) - 1] =
                        [caller EXCEPT
                            !.result = append_directory(@, item, item_path,
                                                        Top.result),
                            !.idx = @ + 1]]
                  /\ UNCHANGED <<pc, returned>>
    /\ UNCHANGED <<local_dirs, local_files, blobs, log>>

Next ==
    \/ fetch_repository
    \/ download_directory_contents
    \/ process_file
    \/ write_bytes
    \/ process_dir
    \/ skip_item
    \/ return_result

Spec == Init /\ [][Next]_vars

\* The calls are synchronous: a call that can proceed does proceed.
LiveSpec == Spec /\ WF_vars(Next)

Terminated == pc \in {"done", "raised"}

\* ------------------------------------------------- vocabulary of the claims
LogIdx == 1..Len(log)

IsPrefix(p, q) == Len(p) <= Len(q) /\ SubSeq(q, 1, Len(p)) = p

\* listing requests that were answered with status 200
OkLists == { i \in LogIdx : log[i].op = "list" /\ ~log[i].raised
                            /\ log[i].status_code = HTTP_OK }

\* listing requests that were answered with another status
ErrLists == { i \in LogIdx : log[i].op = "list" /\ ~log[i].raised
                             /\ log[i].status_code # HTTP_OK }

\* positions of the entries of a given type in the listing of request i
EntriesOf(i, type) ==
    { k \in 1..Len(log[i].contents) : log[i].contents[k].type = type }

\* the names on the way from the root to entry k of the listing of request i
EntryNames(i, k) == Append(Names(log[i].path), log[i].contents[k].name)

\* the local path and the remote path that belong to a sequence of names
LocalOf(names) == Root \o names
RemoteOf(names) == PathStr(names)

\* the names an event of the log is about
EventNames(e) ==
    IF e.op = "list" THEN Names(e.path)
    ELSE IF e.op = "download" THEN Names(e.url)
    ELSE SubSeq(e.path, Len(Root) + 1, Len(e.path))

DownloadFailed(url) ==
    \E a \in LogIdx : /\ log[a].op = "download" /\ log[a].url = url
                      /\ (log[a].raised \/ log[a].status_code # HTTP_OK)

ListingFailed(path) ==
    \E a \in LogIdx : /\ log[a].op = "list" /\ log[a].path = path
                      /\ (log[a].raised \/ log[a].status_code # HTTP_OK)

\* some request or filesystem call was made for the entry with these names
Attempted(names) ==
    \E a \in LogIdx : log[a].op # "list" /\ EventNames(log[a]) = names

\* the frames whose result holds the two lists
ListFrames == { j \in 1..Len(stack) : stack[j].phase \in {"loop", "write"} }

\* ------------------------------------------------------------------- C1
\* C1: after fetch_repository returns, the bytes at the local path of every
\* file entry of every successfully listed directory equal the remote
\* content of that file, whatever the outcome of the download request.
C1_LocalBytesEqualRemote ==
    pc = "done" =>
        \A i \in OkLists : \A k \in EntriesOf(i, "file") :
            /\ LocalOf(EntryNames(i, k)) \in DOMAIN local_files
            /\ local_files[LocalOf(EntryNames(i, k))]
                   = blobs[log[i].contents[k].download_url]

\* ------------------------------------------------------------------- C2
\* C2: when the listing of a subdirectory or the download of a file fails
\* (non-200 response or transport failure), every entry after it in the
\* same listing is still processed before fetch_repository finishes.
C2_FailureDoesNotAbortSiblings ==
    Terminated =>
        \A i \in OkLists : \A k, m \in 1..Len(log[i].contents) :
            ( /\ k < m
              /\ log[i].contents[m].type \in {"file", "dir"}
              /\ \/ DownloadFailed(log[i].contents[k].download_url)
                 \/ /\ log[i].contents[k].type = "dir"
                    /\ ListingFailed(RemoteOf(EntryNames(i, k))) )
            => Attempted(EntryNames(i, m))

\* ------------------------------------------------------------------- C3
\* C3: a file whose download failed is recorded as an error for that entry,
\* never as a successfully written file.
C3_FailedDownloadNotRecordedAsFile ==
    \A j \in ListFrames : \A r \in 1..Len(stack[j].result.files) :
        ~DownloadFailed(RemoteOf(Append(Names(stack[j].path),
                                        stack[j].result.files[r].name)))

\* ------------------------------------------------------------------- C4
\* C4 as stated: the error result of a non-200 listing carries both the
\* response status and the response body.
C4_ErrorCarriesStatusAndBody ==
    \A j \in 1..Len(stack) :
        stack[j].phase = "ret" =>
            /\ "status_code" \in DOMAIN stack[j].result
            /\ stack[j].result.status_code = stack[j].response.status_code
            /\ stack[j].result.error = stack[j].response.text

\* C4 as amended: a listing request answered with a status other than 200
\* does not raise, and the call returns an error result that carries the
\* response body and nothing else.
C4_ErrorCarriesBody ==
    [][ ( /\ Len(log') = Len(log) + 1
          /\ Last(log').op = "list"
          /\ ~Last(log').raised
          /\ Last(log').status_code # HTTP_OK )
        => ( /\ pc' = "running"
             /\ Len(stack') = Len(stack)
             /\ Last(stack').phase = "ret"
             /\ Last(stack').result = [error |-> Last(log').text] ) ]_vars

C4_Witness ==
    /\ Len(stack) = 2
    /\ stack[2].phase = "ret"
    /\ stack[2].response.status_code = 403
    /\ stack[2].result = [error |-> "rate limit exceeded"]

\* ------------------------------------------------------------------- C5
\* the local directories the fetch created
CreatedDirs ==
    { log[a].path : a \in { b \in LogIdx : /\ log[b].op = "mkdir"
                                           /\ log[b].ok /\ ~log[b].existed } }

\* C5 as stated: after fetch_repository returns, every local directory the
\* fetch created corresponds to a remote directory whose listing request
\* succeeded with status 200.
C5_DirsOnlyForListedOk ==
    pc = "done" =>
        \A d \in CreatedDirs :
            \E i \in OkLists : LocalOf(Names(log[i].path)) = d

\* C5 as amended: every local directory the fetch created is the target
\* root or belongs to an entry of type dir of a listing that succeeded with
\* status 200, and nothing is created beneath a directory whose own listing
\* was answered with another status.
C5_DirsOnlyForListedEntries ==
    /\ \A d \in CreatedDirs \cup local_dirs :
          \/ d = Root
          \/ \E i \in OkLists : \E k \in EntriesOf(i, "dir") :
                d = LocalOf(EntryNames(i, k))
    /\ \A i \in ErrLists :
          \A d \in local_dirs \cup DOMAIN local_files :
              IsPrefix(LocalOf(Names(log[i].path)), d)
                  => d = LocalOf(Names(log[i].path))

C5_Witness ==
    /\ pc = "done"
    /\ \E i \in ErrLists :
          /\ log[i].path # <<>>
          /\ LocalOf(Names(log[i].path)) \in CreatedDirs
    /\ \E i \in OkLists : log[i].path # <<>> /\ Len(log[i].contents) > 0

\* ------------------------------------------------------------------- C6
\* the listing request made for a remote path (one, by C10)
ListOf(path) == CHOOSE a \in LogIdx : log[a].op = "list" /\ log[a].path = path

\* the records of the entries of one type, in listing order
RecordsOf(contents, type, rec(_)) ==
    LET sel == SelectSeq(contents, LAMBDA item : item.type = type)
    IN  [r \in 1..Len(sel) |-> rec(sel[r])]

\* what processing the listing of these names yields, read off the answers
\* the remote gave: an error for a failed listing, otherwise one files
\* record per file entry and one directories record per dir entry
RECURSIVE ExpectedResult(_)
ExpectedResult(names) ==
    LET ev == log[ListOf(RemoteOf(names))]
        FileRec(item) == [name |-> item.name,
                          path |-> PathStr(LocalOf(Append(names, item.name))),
                          size |-> item.size]
        DirRec(item) == [name |-> item.name,
                         path |-> PathStr(LocalOf(Append(names, item.name))),
                         contents |-> ExpectedResult(Append(names, item.name))]
    IN  IF ev.status_code # HTTP_OK THEN [error |-> ev.text]
        ELSE [files |-> RecordsOf(ev.contents, "file", FileRec),
              directories |-> RecordsOf(ev.contents, "dir", DirRec)]

\* the part of a result that belongs to the directory with these names
RECURSIVE ResultAt(_, _)
ResultAt(r, names) ==
    IF names = <<>> THEN r
    ELSE IF /\ "directories" \in DOMAIN r
            /\ \E j \in 1..Len(r.directories) : r.directories[j].name = Head(names)
      THEN ResultAt(r.directories[CHOOSE j \in 1..Len(r.directories) :
                        r.directories[j].name = Head(names)].contents,
                    Tail(names))
    ELSE NoResult

\* C6: after fetch_repository returns, every entry of type dir of a
\* successfully listed directory has its local directory, and the result
\* holds one directories record for it whose contents is the result of
\* processing that directory's own listing.
C6_DirsMaterializedAndRecorded ==
    pc = "done" =>
        \A i \in OkLists : \A k \in EntriesOf(i, "dir") :
            LET names == EntryNames(i, k)
                r == ResultAt(returned, Names(log[i].path))
                recs == { j \in 1..Len(r.directories) :
                            r.directories[j].name = log[i].contents[k].name }
            IN  /\ LocalOf(names) \in local_dirs
                /\ "directories" \in DOMAIN r
                /\ Cardinality(recs) = 1
                /\ \A j \in recs :
                      /\ r.directories[j].path = PathStr(LocalOf(names))
                      /\ r.directories[j].contents = ExpectedResult(names)

C6_Witness ==
    /\ pc = "done"
    /\ \E i \in OkLists : \E k \in EntriesOf(i, "dir") :
          /\ "files" \in DOMAIN ResultAt(returned, EntryNames(i, k))
          /\ Len(ResultAt(returned, EntryNames(i, k)).files) > 0
    /\ \E i \in ErrLists : log[i].path # <<>>

\* ------------------------------------------------------------------- C7
\* C7: within one directory, everything done for entry k comes before
\* anything done for a later entry m, and the files and directories lists
\* keep the order of the listing.
C7_SequentialDepthFirstInOrder ==
    /\ \A i \in OkLists : \A k, m \in 1..Len(log[i].contents) :
          k < m =>
            \A a, b \in LogIdx :
                ( /\ IsPrefix(EntryNames(i, k), EventNames(log[a]))
                  /\ IsPrefix(EntryNames(i, m), EventNames(log[b])) )
                => a < b
    /\ \A j \in ListFrames :
          LET done == SubSeq(stack[j].contents, 1, stack[j].idx - 1)
              NameOf(item) == item.name
              NameAt(recs) == [r \in 1..Len(recs) |-> recs[r].name]
          IN  /\ NameAt(stack[j].result.files) = RecordsOf(done, "file", NameOf)
              /\ NameAt(stack[j].result.directories)
                     = RecordsOf(done, "dir", NameOf)
    /\ pc = "done" => returned = ExpectedResult(<<>>)

C7_Witness ==
    /\ pc = "done"
    /\ \E i \in OkLists :
          /\ log[i].path = <<>>
          /\ Len(log[i].contents) = 2
          /\ log[i].contents[1].type = "dir"
          /\ log[i].contents[2].type = "file"
          /\ \E a \in OkLists : /\ log[a].path = RemoteOf(EntryNames(i, 1))
                                /\ Len(log[a].contents) = 1
                                /\ log[a].contents[1].type = "file"

\* ------------------------------------------------------------------- C8
\* C8: when writing a file's bytes fails, the failure reaches the caller of
\* fetch_repository: nothing is returned, and no files record exists for
\* the file whose write failed.
C8_WriteFailurePropagates ==
    \A a \in LogIdx :
        (log[a].op = "write" /\ ~log[a].ok) =>
            /\ pc = "raised"
            /\ returned = NoResult
            /\ a = Len(log)
            /\ log[a].path \notin DOMAIN local_files
            /\ \A j \in ListFrames : \A r \in 1..Len(stack[j].result.files) :
                  stack[j].result.files[r].path # PathStr(log[a].path)

C8_Witness ==
    /\ Len(log) > 0
    /\ Last(log).op = "write" /\ ~Last(log).ok
    /\ Len(stack) = 2
    /\ Len(stack[1].result.files) = 1

\* ------------------------------------------------------------------- C9
WellFormed(path) ==
    /\ path # <<>> => (path[1] # Slash /\ Last(path) # Slash)
    /\ \A t \in 1..(Len(path) - 1) : ~(path[t] = Slash /\ path[t + 1] = Slash)

\* C9: fetch_repository creates the local root and lists remote path "";
\* every later listing is for the names of the directory entries on the way
\* from the root joined with "/", without leading or doubled slash, and its
\* local directory is the local root joined with the same names.
C9_PathsFollowEntryNames ==
    /\ pc \in {"running", "done"} => Root \in local_dirs
    /\ log # <<>> => (log[1].op = "mkdir" /\ log[1].path = Root)
    /\ \A a \in LogIdx : log[a].op = "list" =>
          /\ WellFormed(log[a].path)
          /\ log[a].path = RemoteOf(Names(log[a].path))
          /\ log[a - 1].op = "mkdir"
          /\ log[a - 1].path = LocalOf(Names(log[a].path))
          /\ IF \A b \in 1..(a - 1) : log[b].op # "list"
               THEN log[a].path = <<>>
               ELSE \E i \in OkLists : \E k \in EntriesOf(i, "dir") :
                      /\ i < a
                      /\ log[a].path = RemoteOf(EntryNames(i, k))
    /\ \A j \in 1..Len(stack) :
          /\ stack[j].target_path = LocalOf(Names(stack[j].path))
          /\ stack[j].target_path \in local_dirs
          /\ Len(Names(stack[j].path)) = j - 1

C9_Witness ==
    /\ Len(stack) = 3
    /\ stack[3].path = <<"b", Slash, "a">>
    /\ stack[3].target_path = <<"Hello-World", "b", "a">>
    /\ stack[3].phase = "loop"

\* ------------------------------------------------------------------ C10
NoTransportFailure ==
    \A a \in LogIdx : log[a].op \in {"list", "download"} => ~log[a].raised

NoFilesystemFailure ==
    \A a \in LogIdx : log[a].op \in {"mkdir", "write"} => log[a].ok

ListCount(path) ==
    Cardinality({ a \in LogIdx : log[a].op = "list" /\ log[a].path = path })

DownloadCount(url) ==
    Cardinality({ a \in LogIdx : log[a].op = "download" /\ log[a].url = url })

RequestCounts ==
    /\ ListCount(<<>>) <= 1
    /\ \A a \in LogIdx : log[a].op = "list" =>
          /\ ListCount(log[a].path) = 1
          /\ \/ log[a].path = <<>>
             \/ \E i \in OkLists : \E k \in EntriesOf(i, "dir") :
                   log[a].path = RemoteOf(EntryNames(i, k))
    /\ \A a \in LogIdx : log[a].op = "download" =>
          /\ DownloadCount(log[a].url) = 1
          /\ \E i \in OkLists : \E k \in EntriesOf(i, "file") :
                log[a].url = log[i].contents[k].download_url
    /\ \A i \in OkLists : \A k \in EntriesOf(i, "file") :
          LET item == log[i].contents[k]
          IN  ("content" \in DOMAIN item /\ item.content # <<>>)
                  => DownloadCount(item.download_url) = 0
    /\ pc = "done" =>
          /\ ListCount(<<>>) = 1
          /\ \A i \in OkLists : \A k \in EntriesOf(i, "dir") :
                ListCount(RemoteOf(EntryNames(i, k))) = 1
          /\ \A i \in OkLists : \A k \in EntriesOf(i, "file") :
                LET item == log[i].contents[k]
                IN  ~("content" \in DOMAIN item /\ item.content # <<>>)
                        => DownloadCount(item.download_url) = 1
    /\ (Terminated /\ NoTransportFailure /\ NoFilesystemFailure) => pc = "done"

\* C10: fetch_repository terminates; it lists the root and every directory
\* entry of a successfully listed directory exactly once and nothing else,
\* and downloads a file entry at most once, never when the entry carries
\* non-empty inline content.
C10_TerminatesWithOneRequestEach == <>Terminated /\ []RequestCounts

C10_Witness ==
    /\ pc = "done"
    /\ \E i \in OkLists :
          /\ \E k \in EntriesOf(i, "file") :
                "content" \in DOMAIN log[i].contents[k]
                /\ log[i].contents[k].content # <<>>
          /\ \E k \in EntriesOf(i, "file") :
                DownloadCount(log[i].contents[k].download_url) = 1
          /\ \E k \in EntriesOf(i, "dir") :
                ListCount(RemoteOf(EntryNames(i, k))) = 1
====
